---- MODULE Spec2Model ----
(***************************************************************************)
(* Model of op_tests/op_benchmarks/triton/mha_compare.py: a batch tool     *)
(* that parses two MHA benchmark reports, inner-joins them on the          *)
(* configuration index, writes a bar chart and prints summary statistics.  *)
(*                                                                         *)
(* Text is modelled as sequences of one-character strings, so that         *)
(* readlines / strip / split / substring search / int() / float() are      *)
(* computed, not assumed.  Floating-point values are modelled as exact     *)
(* rationals extended with inf, -inf and nan (the values numpy division    *)
(* produces on a zero divisor).                                            *)
(***************************************************************************)
EXTENDS Integers, Sequences, FiniteSets, TLC

VARIABLES pc, fs, df1, df2, merged_df, stdout, exitCode, exception,
          imageWritten, summary

vars == <<pc, fs, df1, df2, merged_df, stdout, exitCode, exception,
          imageWritten, summary>>

\* ------------------------------------------------------------------------
\* Bounds of the model
\* ------------------------------------------------------------------------

\* Maximum number of lines of a report in the parser specification.
MaxParseLines == 3

\* Maximum number of lines of each report in the whole-program specification.
MaxLines == 2

\* ------------------------------------------------------------------------
\* Text primitives (Python str methods used by the program)
\* ------------------------------------------------------------------------

Whitespace == {" ", "\t", "\n"}

DigitChars == <<"0", "1", "2", "3", "4", "5", "6", "7", "8", "9">>

IsDigit(c) == \E i \in 1..Len(DigitChars) : DigitChars[i] = c

DigitVal(c) == (CHOOSE i \in 1..Len(DigitChars) : DigitChars[i] = c) - 1

\* `pat in s` for Python strings: pat occurs as a contiguous substring.
Contains(s, pat) ==
    \E i \in 1..(Len(s) - Len(pat) + 1) :
        \A j \in 1..Len(pat) : s[i + j - 1] = pat[j]

\* f.readlines(): the text cut after every "\n"; a last line without "\n"
\* is kept as it is.
RECURSIVE ReadLinesFrom(_, _, _)
ReadLinesFrom(text, start, i) ==
    IF i > Len(text)
    THEN IF start > Len(text) THEN <<>> ELSE <<SubSeq(text, start, Len(text))>>
    ELSE IF text[i] = "\n"
         THEN <<SubSeq(text, start, i)>> \o ReadLinesFrom(text, i + 1, i + 1)
         ELSE ReadLinesFrom(text, start, i + 1)

ReadLines(text) == ReadLinesFrom(text, 1, 1)

\* str.strip(): drop leading and trailing whitespace.
RECURSIVE LStrip(_)
LStrip(s) ==
    IF s # <<>> /\ Head(s) \in Whitespace THEN LStrip(Tail(s)) ELSE s

RECURSIVE RStrip(_)
RStrip(s) ==
    IF s # <<>> /\ s[Len(s)] \in Whitespace
    THEN RStrip(SubSeq(s, 1, Len(s) - 1))
    ELSE s

Strip(s) == LET l == LStrip(s) IN RStrip(l)

\* str.split() without arguments: maximal runs of non-whitespace characters.
RECURSIVE SplitFrom(_, _, _)
SplitFrom(s, i, cur) ==
    IF i > Len(s)
    THEN IF cur = <<>> THEN <<>> ELSE <<cur>>
    ELSE IF s[i] \in Whitespace
         THEN IF cur = <<>>
              THEN SplitFrom(s, i + 1, <<>>)
              ELSE <<cur>> \o SplitFrom(s, i + 1, <<>>)
         ELSE SplitFrom(s, i + 1, Append(cur, s[i]))

Split(s) == SplitFrom(s, 1, <<>>)

\* ------------------------------------------------------------------------
\* Numbers
\* ------------------------------------------------------------------------

Abs(x) == IF x < 0 THEN -x ELSE x

RECURSIVE Gcd(_, _)
Gcd(a, b) == IF b = 0 THEN a ELSE Gcd(b, a % b)

\* A float: a finite rational n/d in lowest terms (d > 0), or inf, -inf, nan.
Fin(n, d) ==
    LET g == Gcd(Abs(n), d)
    IN  [kind |-> "fin", n |-> n \div g, d |-> d \div g]

PosInf == [kind |-> "inf", n |-> 1, d |-> 0]
NegInf == [kind |-> "ninf", n |-> -1, d |-> 0]
NaN == [kind |-> "nan", n |-> 0, d |-> 0]

IsFinite(x) == x.kind = "fin"
IsNaN(x) == x.kind = "nan"

\* x < y on floats; every comparison with nan is false.
FLess(x, y) ==
    CASE IsNaN(x) \/ IsNaN(y) -> FALSE
      [] x.kind = "ninf" -> y.kind # "ninf"
      [] x.kind = "inf" -> FALSE
      [] y.kind = "ninf" -> FALSE
      [] y.kind = "inf" -> TRUE
      [] OTHER -> x.n * y.d < y.n * x.d

\* x + y on floats.
FAdd(x, y) ==
    CASE IsNaN(x) \/ IsNaN(y) -> NaN
      [] IsFinite(x) /\ IsFinite(y) -> Fin(x.n * y.d + y.n * x.d, x.d * y.d)
      [] IsFinite(x) -> y
      [] IsFinite(y) -> x
      [] x.kind = y.kind -> x
      [] OTHER -> NaN

\* x / y on float columns (numpy semantics: no exception on a zero divisor).
FDiv(x, y) ==
    CASE IsNaN(x) \/ IsNaN(y) -> NaN
      [] IsFinite(x) /\ IsFinite(y) ->
            IF y.n = 0
            THEN IF x.n = 0 THEN NaN ELSE IF x.n > 0 THEN PosInf ELSE NegInf
            ELSE IF y.n > 0 THEN Fin(x.n * y.d, x.d * y.n)
                            ELSE Fin(-(x.n * y.d), x.d * (-y.n))
      [] IsFinite(x) -> Fin(0, 1)
      [] IsFinite(y) ->
            IF (x.kind = "inf") = (y.n >= 0) THEN PosInf ELSE NegInf
      [] OTHER -> NaN

RECURSIVE DigitsValue(_)
DigitsValue(ds) ==
    IF ds = <<>> THEN 0
    ELSE 10 * DigitsValue(SubSeq(ds, 1, Len(ds) - 1)) + DigitVal(ds[Len(ds)])

RECURSIVE Pow10(_)
Pow10(k) == IF k = 0 THEN 1 ELSE 10 * Pow10(k - 1)

AllDigits(s) == \A i \in 1..Len(s) : IsDigit(s[i])

HasSign(tok) == tok # <<>> /\ Head(tok) \in {"+", "-"}

Unsigned(tok) == IF HasSign(tok) THEN Tail(tok) ELSE tok

SignOf(tok) == IF tok # <<>> /\ Head(tok) = "-" THEN -1 ELSE 1

\* int(tok) for a token of the alphabet {digits, '.', '+', '-', letters}:
\* an optional sign and one or more decimal digits; anything else raises
\* ValueError.
ParseInt(tok) ==
    LET body == Unsigned(tok)
    IN  IF body # <<>> /\ AllDigits(body)
        THEN [ok |-> TRUE, val |-> SignOf(tok) * DigitsValue(body)]
        ELSE [ok |-> FALSE, val |-> 0]

DotPositions(s) == {i \in 1..Len(s) : s[i] = "."}

\* float(tok) for a token of the same alphabet: an optional sign, digits
\* with at most one '.', and at least one digit; anything else raises
\* ValueError.
ParseFloat(tok) ==
    LET body == Unsigned(tok)
        dots == DotPositions(body)
        p == IF dots = {} THEN Len(body) + 1 ELSE CHOOSE i \in dots : TRUE
        ip == SubSeq(body, 1, p - 1)
        fp == SubSeq(body, p + 1, Len(body))
    IN  IF /\ Cardinality(dots) <= 1
           /\ AllDigits(ip) /\ AllDigits(fp)
           /\ Len(ip) + Len(fp) >= 1
        THEN [ok |-> TRUE,
              val |-> Fin(SignOf(tok) * (DigitsValue(ip) * Pow10(Len(fp))
                                          + DigitsValue(fp)),
                          Pow10(Len(fp)))]
        ELSE [ok |-> FALSE, val |-> NaN]

\* ------------------------------------------------------------------------
\* parse_mha_file
\* ------------------------------------------------------------------------

BATCH == <<"B", "A", "T", "C", "H">>
HQ == <<"H", "Q">>

\* Token-count threshold of the `len(parts) >= 6` test.
MinParts == 6

\* 1-based positions of the lines that contain both 'BATCH' and 'HQ'.
HeaderLines(lines) ==
    {k \in 1..Len(lines) : Contains(lines[k], BATCH) /\ Contains(lines[k], HQ)}

SetMin(S) == CHOOSE x \in S : \A y \in S : x <= y
SetMax(S) == CHOOSE x \in S : \A y \in S : x >= y

\* Faulty variant: the header line itself is taken as the first data line.
FindDataStartOffByOne(lines) ==
    LET hs == HeaderLines(lines) IN IF hs = {} THEN 0 ELSE SetMin(hs) - 1

\* data_start: 0 when no header line exists, otherwise the (0-based) index
\* of the line after the first header line.  The k-th line (1-based) has
\* 0-based index k - 1, so data_start = (k - 1) + 1.
FindDataStart(lines) ==
    LET hs == HeaderLines(lines) IN IF hs = {} THEN 0 ELSE SetMin(hs)

\* lines[data_start:]
CandidateLines(lines) ==
    LET data_start == FindDataStart(lines)
    IN  SubSeq(lines, data_start + 1, Len(lines))

\* The dict literal of one data line.  Its entries are evaluated in order:
\* int(parts[0]), float(parts[1]) .. float(parts[5]), then parts[6], which
\* does not exist on a 6-token line, then float(parts[6]).
ParseRow(parts) ==
    LET index == ParseInt(parts[1])
        f1 == ParseFloat(parts[2])
        f2 == ParseFloat(parts[3])
        f3 == ParseFloat(parts[4])
        f4 == ParseFloat(parts[5])
        f5 == ParseFloat(parts[6])
        f6 == ParseFloat(parts[7])
        exc ==
          IF ~index.ok THEN "ValueError"
          ELSE IF ~(f1.ok /\ f2.ok /\ f3.ok /\ f4.ok /\ f5.ok) THEN "ValueError"
          ELSE IF Len(parts) < 7 THEN "IndexError"
          ELSE IF ~f6.ok THEN "ValueError"
          ELSE "none"
    IN  IF exc # "none"
        THEN [exc |-> exc, row |-> <<>>]
        ELSE [exc |-> "none",
              row |-> [index |-> index.val,
                       BATCH |-> f1.val,
                       HQ |-> f2.val,
                       HK |-> f3.val,
                       N_CTX_Q |-> f4.val,
                       N_CTX_K |-> f5.val,
                       fwd_TFLOPS |-> f6.val]]

\* The loop over the candidate lines, from line k on, with `data` collected
\* so far.  An exception leaves the loop at once.
RECURSIVE ParseDataLines(_, _, _)
ParseDataLines(cands, k, data) ==
    IF k > Len(cands)
    THEN [exc |-> "none", data |-> data]
    ELSE LET line == Strip(cands[k])
             parts == Split(line)
         IN  IF line # <<>> /\ Len(parts) >= MinParts
             THEN LET r == ParseRow(parts)
                  IN  IF r.exc # "none"
                      THEN [exc |-> r.exc, data |-> data]
                      ELSE ParseDataLines(cands, k + 1, Append(data, r.row))
             ELSE ParseDataLines(cands, k + 1, data)

\* parse_mha_file(filename) on a file system entry: "exit" is the
\* FileNotFoundError branch (message, sys.exit(1)), "raise" an exception
\* that leaves the function, "return" the DataFrame of the parsed rows.
\* A DataFrame is the sequence of its rows; the DataFrame of no rows has no
\* columns.
ParseMhaFile(file) ==
    IF ~file.exists
    THEN [outcome |-> "exit", exc |-> "none", df |-> <<>>]
    ELSE LET lines == ReadLines(file.text)
             cands == CandidateLines(lines)
             r == ParseDataLines(cands, 1, <<>>)
         IN  IF r.exc # "none"
             THEN [outcome |-> "raise", exc |-> r.exc, df |-> <<>>]
             ELSE [outcome |-> "return", exc |-> "none", df |-> r.data]

\* ------------------------------------------------------------------------
\* df1.merge(df2, on='index', suffixes=('_file1', '_file2'))
\* ------------------------------------------------------------------------

MergedRow(l, r) ==
    [index |-> l.index,
     BATCH_file1 |-> l.BATCH, HQ_file1 |-> l.HQ, HK_file1 |-> l.HK,
     N_CTX_Q_file1 |-> l.N_CTX_Q, N_CTX_K_file1 |-> l.N_CTX_K,
     fwd_TFLOPS_file1 |-> l.fwd_TFLOPS,
     BATCH_file2 |-> r.BATCH, HQ_file2 |-> r.HQ, HK_file2 |-> r.HK,
     N_CTX_Q_file2 |-> r.N_CTX_Q, N_CTX_K_file2 |-> r.N_CTX_K,
     fwd_TFLOPS_file2 |-> r.fwd_TFLOPS]

\* The rows of `right`, from row j on, whose index equals that of `lrow`,
\* each paired with `lrow`, in the order of `right`.
RECURSIVE JoinRow(_, _, _)
JoinRow(lrow, right, j) ==
    IF j > Len(right) THEN <<>>
    ELSE (IF right[j].index = lrow.index
          THEN <<MergedRow(lrow, right[j])>> ELSE <<>>)
         \o JoinRow(lrow, right, j + 1)

RECURSIVE JoinFrom(_, _, _)
JoinFrom(left, right, i) ==
    IF i > Len(left) THEN <<>>
    ELSE JoinRow(left[i], right, 1) \o JoinFrom(left, right, i + 1)

\* As JoinRow, with the rows of the second table scanned for `rrow`.
RECURSIVE JoinRowRight(_, _, _)
JoinRowRight(left, rrow, i) ==
    IF i > Len(left) THEN <<>>
    ELSE (IF left[i].index = rrow.index
          THEN <<MergedRow(left[i], rrow)>> ELSE <<>>)
         \o JoinRowRight(left, rrow, i + 1)

RECURSIVE JoinFromRight(_, _, _)
JoinFromRight(left, right, j) ==
    IF j > Len(right) THEN <<>>
    ELSE JoinRowRight(left, right[j], 1) \o JoinFromRight(left, right, j + 1)

\* Faulty variant: how='right', the rows follow the order of the second table.
InnerJoinRightOrder(left, right) == JoinFromRight(left, right, 1)

RECURSIVE DropRepeated(_, _)
DropRepeated(rows, seen) ==
    IF rows = <<>> THEN <<>>
    ELSE IF Head(rows).index \in seen
         THEN DropRepeated(Tail(rows), seen)
         ELSE <<Head(rows)>>
              \o DropRepeated(Tail(rows), seen \cup {Head(rows).index})

\* Faulty variant: only the first pair of every index is kept.
InnerJoinFirstMatch(left, right) == DropRepeated(JoinFrom(left, right, 1), {})

\* how='inner' (the default): one row for every pair of rows with equal
\* index, in the order of the left keys, the matches of one left row in the
\* order of the right table.
InnerJoin(left, right) == JoinFrom(left, right, 1)

\* ------------------------------------------------------------------------
\* Series statistics (skipna=True, the pandas default)
\* ------------------------------------------------------------------------

NotNaN(x) == ~IsNaN(x)

RECURSIVE FSum(_)
FSum(col) == IF col = <<>> THEN Fin(0, 1) ELSE FAdd(Head(col), FSum(Tail(col)))

\* Series.mean(): nan values are skipped; the mean of nothing is nan.
Mean(col) ==
    LET vals == SelectSeq(col, NotNaN)
    IN  IF vals = <<>> THEN NaN ELSE FDiv(FSum(vals), Fin(Len(vals), 1))

\* Positions of the non-nan values that no other value exceeds / undercuts.
MaxPositions(col) ==
    {i \in 1..Len(col) :
        NotNaN(col[i]) /\ \A j \in 1..Len(col) : ~FLess(col[i], col[j])}

MinPositions(col) ==
    {i \in 1..Len(col) :
        NotNaN(col[i]) /\ \A j \in 1..Len(col) : ~FLess(col[j], col[i])}

\* Series.max() / Series.min().
Max(col) == LET ps == MaxPositions(col) IN IF ps = {} THEN NaN ELSE col[SetMin(ps)]
Min(col) == LET ps == MinPositions(col) IN IF ps = {} THEN NaN ELSE col[SetMin(ps)]

\* Faulty variant: the last row that attains the extremum is reported.
IdxMaxLast(col) == SetMax(MaxPositions(col))

\* Series.idxmax() / Series.idxmin() on a column with a non-nan value: the
\* row of the first occurrence (rows numbered from 1 here; the RangeIndex
\* label is this number minus 1).
IdxMax(col) == SetMin(MaxPositions(col))
IdxMin(col) == SetMin(MinPositions(col))

RECURSIVE Column(_, _)
Column(df, name) ==
    IF df = <<>> THEN <<>> ELSE <<Head(df)[name]>> \o Column(Tail(df), name)

\* Faulty variant: the relative change instead of the ratio.
SpeedupRelative(row) ==
    FDiv(FAdd(row.fwd_TFLOPS_file2,
              FDiv(row.fwd_TFLOPS_file1, Fin(-1, 1))),
         row.fwd_TFLOPS_file1)

\* merged_df['fwd_TFLOPS_file2'] / merged_df['fwd_TFLOPS_file1'], row-wise.
Speedup(row) == FDiv(row.fwd_TFLOPS_file2, row.fwd_TFLOPS_file1)

RECURSIVE SpeedupColumn(_)
SpeedupColumn(df) ==
    IF df = <<>> THEN <<>> ELSE <<Speedup(Head(df))>> \o SpeedupColumn(Tail(df))

\* ------------------------------------------------------------------------
\* Input reports
\* ------------------------------------------------------------------------

\* "<idx>  1.0 16 16 64 64 <tflops>\n"
DataLine(idx, tflops) ==
    idx \o <<" ", " ", "1", ".", "0", " ", "1", "6", " ", "1", "6", " ", "6", "4", " ", "6", "4", " ">> \o tflops \o <<"\n">>

\* Data lines of configuration 1 (throughput 0.0, 50.0, 100) and of
\* configuration 2 (throughput 100, 200.0).
DataLinePool ==
    {DataLine(<<"1">>, t) : t \in {<<"0", ".", "0">>, <<"5", "0", ".", "0">>, <<"1", "0", "0">>}}
    \cup {DataLine(<<"2">>, t) : t \in {<<"1", "0", "0">>, <<"2", "0", "0", ".", "0">>}}

\* "  BATCH HQ HK N_CTX_Q N_CTX_K fwd_TFLOPS\n"
HeaderLine == <<" ", " ", "B", "A", "T", "C", "H", " ", "H", "Q", " ", "H", "K", " ", "N", "_", "C", "T", "X", "_", "Q", " ", "N", "_", "C", "T", "X", "_", "K", " ", "f", "w", "d", "_", "T", "F", "L", "O", "P", "S", "\n">>

\* "mha-fwd:\n", the title a report carries above its header.
TitleLine == <<"m", "h", "a", "-", "f", "w", "d", ":", "\n">>

\* " \n"
BlankLine == <<" ", "\n">>

\* "3 1 16 16 64 64 200 7.5\n": eight tokens, a trailing extra column.
WideLine == <<"3", " ", "1", " ", "1", "6", " ", "1", "6", " ", "6", "4", " ", "6", "4", " ", "2", "0", "0", " ", "7", ".", "5", "\n">>

\* "1 1 16 16 64 64\n": exactly six tokens.
SixTokenLine == <<"1", " ", "1", " ", "1", "6", " ", "1", "6", " ", "6", "4", " ", "6", "4", "\n">>

\* "1.0 1 16 16 64 64 50\n": the index is not an integer literal.
BadIndexLine == <<"1", ".", "0", " ", "1", " ", "1", "6", " ", "1", "6", " ", "6", "4", " ", "6", "4", " ", "5", "0", "\n">>

\* "2 1 16 16 64 64 n/a\n": the throughput is not a number.
BadFloatLine == <<"2", " ", "1", " ", "1", "6", " ", "1", "6", " ", "6", "4", " ", "6", "4", " ", "n", "/", "a", "\n">>

\* Lines of the reports of the parser specification.
ParseLinePool ==
    {HeaderLine, TitleLine, BlankLine, WideLine, SixTokenLine, BadIndexLine,
     BadFloatLine}
    \cup {DataLine(<<"1">>, <<"5", "0", ".", "0">>), DataLine(<<"2">>, <<"1", "0", "0">>)}

RECURSIVE Concat(_)
Concat(ls) == IF ls = <<>> THEN <<>> ELSE Head(ls) \o Concat(Tail(ls))

\* All sequences of at most n elements of S.
SeqsUpTo(S, n) == UNION {[1..k -> S] : k \in 0..n}

MissingFile == [exists |-> FALSE, text |-> <<>>]
ExistingFile(text) == [exists |-> TRUE, text |-> text]

Files(pool, n) == {ExistingFile(Concat(ls)) : ls \in SeqsUpTo(pool, n)}

\* ------------------------------------------------------------------------
\* main
\* ------------------------------------------------------------------------

NoException == [type |-> "none", at |-> "none"]

NoSummary ==
    [valid |-> FALSE, mean1 |-> NaN, mean2 |-> NaN, max1 |-> NaN, max2 |-> NaN,
     avgSpeedup |-> NaN, best |-> NaN, bestConfig |-> 0,
     worst |-> NaN, worstConfig |-> 0]

Msg(text, arg) == [text |-> text, arg |-> arg]

\* "  BATCH ...\n1 1 16 16 64 64\n": a report with a six-token data line.
SixTokenReport == ExistingFile(HeaderLine \o SixTokenLine)

\* The inputs of the whole-program specification: a missing path, the
\* report with the six-token line, and every report made of the header
\* line and at most MaxLines data lines.
MainFiles ==
    {ExistingFile(HeaderLine \o Concat(ls)) : ls \in SeqsUpTo(DataLinePool, MaxLines)}
    \cup {MissingFile, SixTokenReport}

\* The reports of the parser specification.
ParseFiles == Files(ParseLinePool, MaxParseLines)

\* "  BATCH ...\n1  1.0 16 16 64 64 50.0\n"
SmallReport == ExistingFile(HeaderLine \o DataLine(<<"1">>, <<"5", "0", ".", "0">>))

\* The program's state when main starts.
Started ==
    /\ pc = "load1"
    /\ df1 = <<>>
    /\ df2 = <<>>
    /\ merged_df = <<>>
    /\ stdout = <<>>
    /\ exitCode = -1
    /\ exception = NoException
    /\ imageWritten = FALSE
    /\ summary = NoSummary

\* The program started on two paths, each missing or holding a report.
Init ==
    /\ fs \in [file1 : MainFiles, file2 : MainFiles]
    /\ Started

\* Lines 57-58: df1 = parse_mha_file(args.file1)
LoadFile1 ==
    /\ pc = "load1"
    /\ \E r \in {ParseMhaFile(fs.file1)} :
           /\ stdout' = stdout \o <<Msg("Loading file 1", "file1")>>
                        \o (IF r.outcome = "exit"
                            THEN <<Msg("Error: File not found", "file1")>>
                            ELSE <<>>)
           /\ pc' = CASE r.outcome = "exit" -> "exit"
                      [] r.outcome = "raise" -> "crashed"
                      [] OTHER -> "load2"
           /\ exitCode' = IF r.outcome = "return" THEN exitCode ELSE 1
           /\ exception' = IF r.outcome = "raise"
                           THEN [type |-> r.exc, at |-> "parse_file1"]
                           ELSE exception
           /\ df1' = r.df
    /\ UNCHANGED <<fs, df2, merged_df, imageWritten, summary>>

\* Lines 60-61: df2 = parse_mha_file(args.file2)
LoadFile2 ==
    /\ pc = "load2"
    /\ \E r \in {ParseMhaFile(fs.file2)} :
           /\ stdout' = stdout \o <<Msg("Loading file 2", "file2")>>
                        \o (IF r.outcome = "exit"
                            THEN <<Msg("Error: File not found", "file2")>>
                            ELSE <<>>)
           /\ pc' = CASE r.outcome = "exit" -> "exit"
                      [] r.outcome = "raise" -> "crashed"
                      [] OTHER -> "merge"
           /\ exitCode' = IF r.outcome = "return" THEN exitCode ELSE 1
           /\ exception' = IF r.outcome = "raise"
                           THEN [type |-> r.exc, at |-> "parse_file2"]
                           ELSE exception
           /\ df2' = r.df
    /\ UNCHANGED <<fs, df1, merged_df, imageWritten, summary>>

\* Line 64.  A DataFrame built from no rows has no 'index' column, and
\* merging on a missing column raises KeyError.
Merge ==
    /\ pc = "merge"
    /\ IF df1 = <<>> \/ df2 = <<>>
       THEN /\ pc' = "crashed"
            /\ exitCode' = 1
            /\ exception' = [type |-> "KeyError", at |-> "merge"]
            /\ UNCHANGED merged_df
       ELSE /\ pc' = "plot"
            /\ merged_df' = InnerJoin(df1, df2)
            /\ UNCHANGED <<exitCode, exception>>
    /\ UNCHANGED <<fs, df1, df2, stdout, imageWritten, summary>>

\* Lines 67-99: the chart is drawn, saved to args.output and announced.
Plot ==
    /\ pc = "plot"
    /\ imageWritten' = TRUE
    /\ stdout' = Append(stdout, Msg("Plot saved", "output"))
    /\ pc' = "stats"
    /\ UNCHANGED <<fs, df1, df2, merged_df, exitCode, exception, summary>>

\* The figures of lines 105-114, for a join `df` with speedup column `sp`
\* that holds a non-nan value.
Summarise(df, sp) ==
    LET col1 == Column(df, "fwd_TFLOPS_file1")
        col2 == Column(df, "fwd_TFLOPS_file2")
    IN
    [valid |-> TRUE,
     mean1 |-> Mean(col1),
     mean2 |-> Mean(col2),
     max1 |-> Max(col1),
     max2 |-> Max(col2),
     avgSpeedup |-> Mean(sp),
     best |-> Max(sp),
     bestConfig |-> df[IdxMax(sp)].index,
     worst |-> Min(sp),
     worstConfig |-> df[IdxMin(sp)].index]

\* Lines 102-115.  The means and maxima and the average speedup are
\* printed first; idxmax() then raises on a speedup column without a
\* non-nan value (ValueError, or nan used as a label: KeyError, depending
\* on the pandas version), which an empty join always is.
Stats ==
    /\ pc = "stats"
    /\ \E sp \in {SpeedupColumn(merged_df)} :
       \E head \in {<<Msg("Summary Statistics", "means and maxima"),
                      Msg("Average Speedup", "mean")>>} :
           /\ merged_df' = [i \in 1..Len(merged_df) |->
                               merged_df[i] @@ [speedup |-> sp[i]]]
           /\ IF MaxPositions(sp) = {}
              THEN /\ \E t \in (IF sp = <<>> THEN {"ValueError"}
                                ELSE {"ValueError", "KeyError"}) :
                        exception' = [type |-> t, at |-> "stats"]
                   /\ pc' = "crashed"
                   /\ exitCode' = 1
                   /\ stdout' = stdout \o head
                   /\ UNCHANGED summary
              ELSE /\ summary' = Summarise(merged_df, sp)
                   /\ pc' = "done"
                   /\ exitCode' = 0
                   /\ stdout' = stdout \o head
                                \o <<Msg("Best case", "max"),
                                     Msg("Worst case", "min")>>
                   /\ UNCHANGED exception
    /\ UNCHANGED <<fs, df1, df2, imageWritten>>

Next == LoadFile1 \/ LoadFile2 \/ Merge \/ Plot \/ Stats

Spec == Init /\ [][Next]_vars

\* The parser specification: one report of up to MaxParseLines lines drawn
\* from the richer pool, a second path that may be missing or well-formed.
InitParse ==
    /\ fs \in [file1 : ParseFiles, file2 : {MissingFile, SmallReport}]
    /\ Started

NextParse == LoadFile1 \/ LoadFile2

SpecParse == InitParse /\ [][NextParse]_vars

\* ------------------------------------------------------------------------
\* Vocabulary of the properties
\* ------------------------------------------------------------------------

\* parse_mha_file(file1) has been called / has returned a table.
Loaded1 == pc # "load1"
Raised1 == pc = "crashed" /\ exception.at = "parse_file1"
Returned1 == Loaded1 /\ fs.file1.exists /\ ~Raised1

\* The merge of line 64 / the statistics of lines 102-115 have been run.
MergeRan ==
    \/ pc \in {"plot", "stats", "done"}
    \/ pc = "crashed" /\ exception.at \in {"merge", "stats"}
StatsRan == pc = "done" \/ (pc = "crashed" /\ exception.at = "stats")

Terminated == pc \in {"done", "exit", "crashed"}

Tokens(line) == Split(Strip(line))

IsHeader(line) == Contains(line, BATCH) /\ Contains(line, HQ)

\* A line of at least 7 tokens that all convert: token[0] as an integer,
\* token[1..6] as numbers.
IsValidDataLine(line) ==
    LET t == Tokens(line)
    IN  /\ Len(t) >= 7
        /\ ParseInt(t[1]).ok
        /\ \A j \in 2..7 : ParseFloat(t[j]).ok

\* A line of at least 7 tokens of which one does not convert.
IsMalformedLine(line) == Len(Tokens(line)) >= 7 /\ ~IsValidDataLine(line)

\* A line that is empty after trimming, or has fewer than 7 tokens.
IsShortLine(line) == Len(Tokens(line)) < 7

IsBlankLine(line) == Tokens(line) = <<>>

\* The row the specification assigns to a valid data line.
RowOfLine(line) ==
    LET t == Tokens(line)
    IN  [index |-> ParseInt(t[1]).val,
         BATCH |-> ParseFloat(t[2]).val,
         HQ |-> ParseFloat(t[3]).val,
         HK |-> ParseFloat(t[4]).val,
         N_CTX_Q |-> ParseFloat(t[5]).val,
         N_CTX_K |-> ParseFloat(t[6]).val,
         fwd_TFLOPS |-> ParseFloat(t[7]).val]

\* The rows of the valid data lines among `lines`, in order.
RowsOfValidLines(lines) ==
    LET valid == SelectSeq(lines, IsValidDataLine)
    IN  [k \in 1..Len(valid) |-> RowOfLine(valid[k])]

Lines1 == ReadLines(fs.file1.text)

HasHeader1 == \E k \in 1..Len(Lines1) : IsHeader(Lines1[k])

\* Position of the first header line of file1.
FirstHeader1 ==
    CHOOSE k \in 1..Len(Lines1) :
        IsHeader(Lines1[k]) /\ \A j \in 1..(k - 1) : ~IsHeader(Lines1[j])

\* The lines after the header, or all lines of a header-less report.
DataLines1 ==
    IF HasHeader1 THEN SubSeq(Lines1, FirstHeader1 + 1, Len(Lines1)) ELSE Lines1

Indices(df) == {df[k].index : k \in 1..Len(df)}

Count(df, i) == Cardinality({k \in 1..Len(df) : df[k].index = i})

UniqueIndex(df) == \A i \in Indices(df) : Count(df, i) = 1

One == Fin(1, 1)

\* ------------------------------------------------------------------------
\* C1
\* ------------------------------------------------------------------------

\* C1: every candidate data line of file1 that is empty after trimming or
\* has fewer than 7 tokens is skipped without an error: when all other
\* candidate lines are valid data lines, parse_mha_file returns, and returns
\* the rows of the valid lines only.
C1_ShortLinesSkipped ==
    (/\ Loaded1 /\ fs.file1.exists
     /\ \A k \in 1..Len(DataLines1) :
            IsShortLine(DataLines1[k]) \/ IsValidDataLine(DataLines1[k]))
    => (Returned1 /\ df1 = RowsOfValidLines(DataLines1))

\* ------------------------------------------------------------------------
\* C2
\* ------------------------------------------------------------------------

\* file1 has a header line, and every line after the first header line is
\* blank or a valid data line.
WellFormed1 ==
    /\ fs.file1.exists
    /\ HasHeader1
    /\ \A k \in 1..Len(DataLines1) :
           IsBlankLine(DataLines1[k]) \/ IsValidDataLine(DataLines1[k])

\* C2: for a well-formed file with N valid data lines after the first
\* header line, parse_mha_file returns exactly the N rows of those lines,
\* in file order, each with token[0] as index, token[1..5] as BATCH, HQ, HK,
\* N_CTX_Q, N_CTX_K and token[6] as fwd_TFLOPS; lines at or before the
\* header contribute no row.
C2_WellFormedRows ==
    (Loaded1 /\ WellFormed1)
    => (/\ Returned1
        /\ df1 = RowsOfValidLines(SubSeq(Lines1, FirstHeader1 + 1, Len(Lines1)))
        /\ Len(df1) = Len(SelectSeq(DataLines1, IsValidDataLine)))

\* A well-formed report whose header is preceded by a valid data line and
\* followed by one, parsed to a single row.
C2_Witness ==
    /\ Loaded1 /\ WellFormed1 /\ Returned1
    /\ FirstHeader1 = 2
    /\ IsValidDataLine(Lines1[1])
    /\ Len(df1) = 1

\* ------------------------------------------------------------------------
\* C6
\* ------------------------------------------------------------------------

\* C6: a header-less file1 is parsed from its first line, and a candidate
\* line whose tokens fail numeric conversion is skipped while the valid
\* lines are still returned: with only blank, valid and malformed lines,
\* parse_mha_file returns the rows of the valid lines.
C6_MalformedLinesSkipped ==
    (/\ Loaded1 /\ fs.file1.exists /\ ~HasHeader1
     /\ \A k \in 1..Len(Lines1) :
            \/ IsBlankLine(Lines1[k])
            \/ IsValidDataLine(Lines1[k])
            \/ IsMalformedLine(Lines1[k]))
    => (Returned1 /\ df1 = RowsOfValidLines(Lines1))

\* ------------------------------------------------------------------------
\* C3
\* ------------------------------------------------------------------------

IndexSeq(df) == [k \in 1..Len(df) |-> df[k].index]

\* C3: once the merge has run, the join holds a row for index i exactly
\* when i occurs in both tables, and its rows follow the first table: of
\* two joined rows, the earlier one's index occurs in the first table no
\* later than the later one's.
C3_InnerJoinInFirstTableOrder ==
    MergeRan =>
        /\ Indices(merged_df) = Indices(df1) \cap Indices(df2)
        /\ \A k \in 1..Len(merged_df) : \A m \in (k + 1)..Len(merged_df) :
               \E i \in 1..Len(df1) : \E j \in i..Len(df1) :
                   /\ df1[i].index = merged_df[k].index
                   /\ df1[j].index = merged_df[m].index

\* Both tables list configurations 1 and 2, in opposite orders, and the
\* join follows the first table.
C3_Witness ==
    /\ MergeRan
    /\ IndexSeq(df1) = <<2, 1>>
    /\ IndexSeq(df2) = <<1, 2>>
    /\ IndexSeq(merged_df) = <<2, 1>>

\* ------------------------------------------------------------------------
\* C4
\* ------------------------------------------------------------------------

\* The path the program has to report: the first one that does not exist.
FirstMissing == IF ~fs.file1.exists THEN "file1" ELSE "file2"

Reported(path) ==
    \E k \in 1..Len(stdout) : stdout[k] = Msg("Error: File not found", path)

\* C4: a run in which either input path does not exist ends with the
\* offending path reported, exit code 1 and no output image written.
C4_MissingFileReported ==
    (Terminated /\ (~fs.file1.exists \/ ~fs.file2.exists))
    => (exitCode = 1 /\ Reported(FirstMissing) /\ ~imageWritten)

\* ------------------------------------------------------------------------
\* C5
\* ------------------------------------------------------------------------

\* C5: when the two parsed tables share no index, the run does not end in
\* an unhandled exception of the merge or of the statistics.
C5_EmptyJoinGuarded ==
    (pc = "crashed" /\ exception.at \in {"merge", "stats"})
    => Indices(df1) \cap Indices(df2) # {}

\* ------------------------------------------------------------------------
\* C7
\* ------------------------------------------------------------------------

\* C7: a joined row whose fwd_TFLOPS_file1 is zero gets no infinite or nan
\* speedup, and the mean, maximum and minimum speedup of a completed run
\* are finite.
C7_ZeroBaselineGuarded ==
    StatsRan =>
        /\ \A k \in 1..Len(merged_df) :
               merged_df[k].fwd_TFLOPS_file1 = Fin(0, 1)
               => IsFinite(merged_df[k].speedup)
        /\ pc = "done" =>
               /\ IsFinite(summary.avgSpeedup)
               /\ IsFinite(summary.best)
               /\ IsFinite(summary.worst)

\* ------------------------------------------------------------------------
\* C8
\* ------------------------------------------------------------------------

\* C8 as stated: a table joined with itself has speedup 1.0 in every row.
C8_SelfJoinAllOnes ==
    (StatsRan /\ df1 = df2)
    => \A k \in 1..Len(merged_df) : merged_df[k].speedup = One

NoZeroThroughput(df) == \A k \in 1..Len(df) : df[k].fwd_TFLOPS # Fin(0, 1)

\* C8: a table whose index values are unique and whose fwd_TFLOPS values
\* are all non-zero, joined with itself, has one row per row of the table
\* and speedup 1.0 in every row.
C8_SelfJoinUniqueNonZero ==
    (StatsRan /\ df1 = df2 /\ UniqueIndex(df1) /\ NoZeroThroughput(df1))
    => /\ Len(merged_df) = Len(df1)
       /\ \A k \in 1..Len(merged_df) : merged_df[k].speedup = One

\* A completed self-comparison of a table of two configurations.
C8_Witness ==
    /\ pc = "done" /\ df1 = df2
    /\ IndexSeq(df1) = <<1, 2>>
    /\ NoZeroThroughput(df1)
    /\ Len(merged_df) = 2

\* ------------------------------------------------------------------------
\* C9
\* ------------------------------------------------------------------------

\* s = a / b for finite a, b, s with b # 0, by cross-multiplication.
IsQuotient(s, a, b) == IsFinite(s) /\ s.n * b.n * a.d = a.n * b.d * s.d

\* Product of the denominators of the finite values of `col`.
RECURSIVE DenProduct(_)
DenProduct(col) == IF col = <<>> THEN 1 ELSE Head(col).d * DenProduct(Tail(col))

\* Sum of the numerators of `col` over the common denominator `den`.
RECURSIVE NumSum(_, _)
NumSum(col, den) ==
    IF col = <<>> THEN 0
    ELSE Head(col).n * (den \div Head(col).d) + NumSum(Tail(col), den)

\* m is the arithmetic mean of the finite values of `col`.
IsMeanOf(m, col) ==
    LET den == DenProduct(col)
    IN  IsFinite(m) /\ m.n * Len(col) * den = NumSum(col, den) * m.d

SpeedupsOf(df) == [k \in 1..Len(df) |-> df[k].speedup]

\* C9: in a completed run whose joined rows all have non-zero
\* fwd_TFLOPS_file1, every speedup is fwd_TFLOPS_file2 / fwd_TFLOPS_file1,
\* the best case is the maximum and the worst case the minimum speedup,
\* each with the index of the first joined row that attains it, and the
\* average is the arithmetic mean over all joined rows.
C9_SpeedupSummary ==
    (/\ pc = "done"
     /\ \A k \in 1..Len(merged_df) : merged_df[k].fwd_TFLOPS_file1 # Fin(0, 1))
    => LET sp == SpeedupsOf(merged_df)
           n == Len(merged_df)
       IN  /\ n >= 1
           /\ \A k \in 1..n :
                  IsQuotient(sp[k], merged_df[k].fwd_TFLOPS_file2,
                             merged_df[k].fwd_TFLOPS_file1)
           /\ \A k \in 1..n : ~FLess(summary.best, sp[k])
           /\ \A k \in 1..n : ~FLess(sp[k], summary.worst)
           /\ \E k \in 1..n :
                  /\ sp[k] = summary.best
                  /\ merged_df[k].index = summary.bestConfig
                  /\ \A j \in 1..(k - 1) : sp[j] # summary.best
           /\ \E k \in 1..n :
                  /\ sp[k] = summary.worst
                  /\ merged_df[k].index = summary.worstConfig
                  /\ \A j \in 1..(k - 1) : sp[j] # summary.worst
           /\ IsMeanOf(summary.avgSpeedup, sp)

\* The worked example: rows (1, 50, 100) and (2, 200, 100) give mean 1.25,
\* best 2.0 at index 1 and worst 0.5 at index 2.
C9_Witness ==
    /\ pc = "done"
    /\ Len(merged_df) = 2
    /\ merged_df[1].index = 1
    /\ merged_df[1].fwd_TFLOPS_file1 = Fin(50, 1)
    /\ merged_df[1].fwd_TFLOPS_file2 = Fin(100, 1)
    /\ merged_df[2].index = 2
    /\ merged_df[2].fwd_TFLOPS_file1 = Fin(200, 1)
    /\ merged_df[2].fwd_TFLOPS_file2 = Fin(100, 1)
    /\ summary.avgSpeedup = Fin(5, 4)
    /\ summary.best = Fin(2, 1) /\ summary.bestConfig = 1
    /\ summary.worst = Fin(1, 2) /\ summary.worstConfig = 2

\* ------------------------------------------------------------------------
\* C10
\* ------------------------------------------------------------------------

\* C10: once the merge has run, an index that occurs m times in the first
\* table and n times in the second occurs m * n times in the join; with
\* unique index values in both tables every index occurs at most once in
\* the join, which has at most as many rows as the smaller table.
C10_JoinMultiplicity ==
    MergeRan =>
        /\ \A i \in Indices(df1) \cup Indices(df2) \cup Indices(merged_df) :
               Count(merged_df, i) = Count(df1, i) * Count(df2, i)
        /\ (UniqueIndex(df1) /\ UniqueIndex(df2)) =>
               /\ UniqueIndex(merged_df)
               /\ Len(merged_df) <= Len(df1)
               /\ Len(merged_df) <= Len(df2)

\* Configuration 1 occurs twice in each table and four times in the join.
C10_Witness ==
    /\ MergeRan
    /\ Count(df1, 1) = 2
    /\ Count(df2, 1) = 2
    /\ Count(merged_df, 1) = 4

====
